---------------------------- MODULE Spec2Model ----------------------------
(***************************************************************************)
(* Model of eth_arbitrage_dashboard.py: a Streamlit script that is re-run  *)
(* top to bottom on every refresh (one "cycle").  Each run fetches one     *)
(* ticker per selected exchange, computes fee-adjusted prices, selects the *)
(* best buy and the best sell row, and, above a threshold and for a key    *)
(* not alerted before, sends a Telegram message and appends a CSV row.     *)
(*                                                                         *)
(* Numbers.  Raw prices are whole USD amounts, the taker fee is a whole    *)
(* percentage, so ask * (1 + fee/100) is held exactly, scaled by 100       *)
(* (cents).  profit_percent is held as an exact fraction.  The threshold   *)
(* is held in hundredths of a percent (the widget's step).  Floating-point *)
(* rounding is not modelled.                                               *)
(*                                                                         *)
(* Python's None is the empty tuple; a present value x is <<x>>.           *)
(***************************************************************************)
EXTENDS Integers, Sequences, FiniteSets, TLC

None == <<>>
Some(x) == <<x>>

\* What a call of an external function does: it raises or returns a value.
Raise == "raise"
Raises == [kind |-> Raise]
Returns(v) == [kind |-> "return", value |-> v]

\* Python truthiness of an optional number: None and 0 are falsy.
Falsy(v) == v = None \/ v = Some(0)

(***************************************************************************)
(* Bounds of the model.                                                    *)
(***************************************************************************)
MaxCycles == 3

\* The exchanges monitored (two of DEFAULT_EXCHANGES).
Exchanges == {"binance", "kraken"}

Symbol(b, q) == [base |-> b, quote |-> q]

\* What ex.load_markets() can leave in ex.symbols, in enumeration order.
Listings ==
    { <<Symbol("ETH", "USD"), Symbol("ETH", "USDT")>>,
      <<Symbol("BTC", "USDT"), Symbol("ETH", "EUR")>>,
      <<Symbol("BTC", "USDT")>> }

Ticker(b, a, l) == [bid |-> b, ask |-> a, last |-> l]

TickersOver(B, A, L) == { Ticker(b, a, l) : b \in B, a \in A, l \in L }

(***************************************************************************)
(* Constants of the program.                                               *)
(***************************************************************************)
QUOTE_PREFERENCES == <<"USDT", "USD", "BTC", "ETH">>

header ==
    <<"timestamp", "coin", "buy_exchange", "buy_symbol", "buy_price",
      "sell_exchange", "sell_symbol", "sell_price", "profit_usd",
      "profit_percent">>

VARIABLES
    \* st.session_state
    last_alerts,        \* alert_key -> timestamp of the alert
    exchanges_cache,    \* names of the exchanges instantiated and cached
    markets_loaded,     \* ids of the exchanges whose load_markets() was tried
    markets,            \* name -> ex.symbols of the cached instance, or None
    \* the world outside the process
    history_file,       \* None (missing) or Some(the sequence of CSV lines)
    telegram_calls,     \* the messages handed to send_telegram, in order
    append_calls,       \* the calls of append_history_row: <<row, outcome>>
    \* one run of the script
    pc,                 \* "idle" between runs, "fetch" in get_prices_for_coin
    cycles,             \* number of runs started; also the clock
    coin, selected_exchanges, taker_fee_percent, transfer_fee_usd,
    alert_threshold_percent,
    idx,                \* position of the loop of get_prices_for_coin
    prices_raw,         \* the dict out, in insertion order
    load_calls,         \* exchanges whose load_markets() was called this run
    tickers_raw,        \* what ex.fetch_ticker() returned this run, per exchange
    status,             \* what the run wrote to the status placeholder
    opportunity,        \* what the run reported as best opportunity, or None
    telegram_result,    \* (ok, info) of send_telegram, or None
    append_result,      \* "ok" / "raised" of append_history_row, or None
    history_view        \* what the "History & Downloads" section showed

vars ==
    <<last_alerts, exchanges_cache, markets_loaded, markets, history_file,
      telegram_calls, append_calls, pc, cycles, coin, selected_exchanges,
      taker_fee_percent, transfer_fee_usd, alert_threshold_percent, idx,
      prices_raw, load_calls, tickers_raw, status, opportunity,
      telegram_result, append_result, history_view>>

session_vars == <<last_alerts, exchanges_cache, markets_loaded, markets>>
world_vars == <<history_file, telegram_calls, append_calls>>
input_vars ==
    <<coin, selected_exchanges, taker_fee_percent, transfer_fee_usd,
      alert_threshold_percent>>
result_vars ==
    <<status, opportunity, telegram_result, append_result, history_view>>

(***************************************************************************)
(* Helpers.                                                                *)
(***************************************************************************)
\* The first index of s whose element is in S, 0 if there is none.
FirstIndex(s, S) ==
    IF \E i \in 1..Len(s) : s[i] \in S
    THEN CHOOSE i \in 1..Len(s) :
            s[i] \in S /\ \A j \in 1..(i - 1) : s[j] \notin S
    ELSE 0

\* Python's int() of a number held in cents: truncation toward zero.
int(cents) == IF cents >= 0 THEN cents \div 100 ELSE -((-cents) \div 100)

(***************************************************************************)
(* instantiate_exchange(name): the cached instance, or a new one that is   *)
(* cached; None, and nothing cached, when ccxt has no such class or the    *)
(* constructor raises.  outcome is what the construction would do.         *)
(***************************************************************************)
InstOutcomes == {"ok", "no_class", Raise}

instantiate_exchange(name, cache, outcome) ==
    IF name \in cache THEN [ex |-> Some(name), cache |-> cache]
    ELSE IF outcome = "ok"
         THEN [ex |-> Some(name), cache |-> cache \cup {name}]
         ELSE [ex |-> None, cache |-> cache]

(***************************************************************************)
(* find_symbol_for_exchange(ex, base).  load is what ex.load_markets()     *)
(* would do: raise, or return, leaving a listing in ex.symbols.            *)
(***************************************************************************)
\* Lines 90-95: load markets once per exchange per session.
load_markets_once(ex, loaded, mkts, load) ==
    IF ex \in loaded THEN [loaded |-> loaded, markets |-> mkts, called |-> FALSE]
    ELSE [loaded  |-> loaded \cup {ex},
          markets |-> IF load.kind = Raise THEN mkts
                      ELSE [mkts EXCEPT ![ex] = load.value],
          called  |-> TRUE]

\* Lines 96-109: the symbol search over ex.symbols.
find_symbol(symbols, base) ==
    IF symbols = None THEN None
    ELSE LET all    == {symbols[i] : i \in 1..Len(symbols)}
             listed == {q \in {QUOTE_PREFERENCES[i] :
                                  i \in 1..Len(QUOTE_PREFERENCES)} :
                          Symbol(base, q) \in all}
             p == FirstIndex(QUOTE_PREFERENCES, listed)
             starts == {s \in all : s.base = base}
             f == FirstIndex(symbols, starts)
         IN  IF p # 0 THEN Some(Symbol(base, QUOTE_PREFERENCES[p]))
             ELSE IF f # 0 THEN Some(symbols[f])
             ELSE None

(***************************************************************************)
(* fetch_ticker_safe(ex, symbol).  raw is what ex.fetch_ticker() would do: *)
(* raise, or return a ticker.                                              *)
(***************************************************************************)
\* A backfill that takes last whenever last is present.
fetch_ticker_safe_overwrite(raw) ==
    IF raw.kind = Raise THEN None
    ELSE LET ticker == raw.value
             bid == IF ticker.last # None THEN ticker.last ELSE ticker.bid
             ask == IF ticker.last # None THEN ticker.last ELSE ticker.ask
         IN  Some(Ticker(bid, ask, ticker.last))

fetch_ticker_safe(raw) ==
    IF raw.kind = Raise THEN None
    ELSE LET ticker == raw.value
             bid == IF ticker.bid = None /\ ticker.last # None
                    THEN ticker.last ELSE ticker.bid
             ask == IF ticker.ask = None /\ ticker.last # None
                    THEN ticker.last ELSE ticker.ask
         IN  Some(Ticker(bid, ask, ticker.last))

(***************************************************************************)
(* compute_effective_prices(record, fee_percent), in cents.                *)
(***************************************************************************)
compute_effective_prices(record, fee_percent) ==
    LET missing == record.ask = None \/ record.bid = None
        ask == IF missing /\ Falsy(record.ask) THEN record.last ELSE record.ask
        bid == IF missing /\ Falsy(record.bid) THEN record.last ELSE record.bid
    IN  IF missing /\ record.last = None THEN <<None, None>>
        ELSE <<Some(ask[1] * (100 + fee_percent)),
               Some(bid[1] * (100 - fee_percent))>>

(***************************************************************************)
(* send_telegram(message).  outcome is what the notifier would do.         *)
(***************************************************************************)
TelegramOutcomes == {"no_config", "status_200", "status_other", Raise}

send_telegram(outcome) ==
    CASE outcome = "no_config"    -> <<FALSE, "No Telegram configured">>
      [] outcome = "status_200"   -> <<TRUE, "r.text">>
      [] outcome = "status_other" -> <<FALSE, "r.text">>
      [] outcome = Raise          -> <<FALSE, "str(e)">>

(***************************************************************************)
(* append_history_row(row).  outcome is what to_csv would do: "ok"; Raise  *)
(* before the file is opened; "raise_in_write", after the file was opened  *)
(* (and so created when missing) and before anything was written.          *)
(***************************************************************************)
AppendOutcomes == {"ok", Raise, "raise_in_write"}

\* A line of the CSV file: the header line to_csv writes, or the cells of a row.
HeaderLine == [line |-> "header", cells |-> header]
DataLine(row) == [line |-> "data", cells |-> row]

\* An append that writes the header on every call, over the file.
append_history_row_rewrite(file, row, outcome) ==
    CASE outcome = "ok" ->
            [file |-> Some(<<HeaderLine, DataLine(row)>>), raised |-> FALSE]
      [] outcome = Raise -> [file |-> file, raised |-> TRUE]
      [] outcome = "raise_in_write" ->
            [file   |-> IF file = None THEN Some(<<>>) ELSE file,
             raised |-> TRUE]

append_history_row(file, row, outcome) ==
    CASE outcome = "ok" ->
            [file   |-> IF file = None THEN Some(<<HeaderLine, DataLine(row)>>)
                        ELSE Some(Append(file[1], DataLine(row))),
             raised |-> FALSE]
      [] outcome = Raise -> [file |-> file, raised |-> TRUE]
      [] outcome = "raise_in_write" ->
            [file   |-> IF file = None THEN Some(<<>>) ELSE file,
             raised |-> TRUE]

(***************************************************************************)
(* Lines 304-314: the history view.  read_csv raises on an empty file and  *)
(* on a file whose first line lacks the timestamp column.                  *)
(***************************************************************************)
HistoryView(file) ==
    IF file = None THEN [kind |-> "no_history", total |-> 0]
    ELSE IF file[1] = <<>> \/ file[1][1].line # "header"
         THEN [kind |-> "warning", total |-> 0]
         ELSE [kind |-> "table", total |-> Len(file[1]) - 1]

(***************************************************************************)
(* Lines 226-261: the table, the valid rows, the best rows, the profit.    *)
(***************************************************************************)
Row(rec, fee_percent) ==
    LET e == compute_effective_prices(rec, fee_percent)
    IN  [exchange |-> rec.exchange, symbol |-> rec.symbol, ask |-> rec.ask,
         bid |-> rec.bid, last |-> rec.last,
         effective_buy |-> e[1], effective_sell |-> e[2]]

DataFrame(raw, fee_percent) == [i \in 1..Len(raw) |-> Row(raw[i], fee_percent)]

\* df.dropna(subset=["effective_buy", "effective_sell"])
notna(row) == row.effective_buy # None /\ row.effective_sell # None
dropna(df) == SelectSeq(df, notna)

\* The last position of the minimum.
idxmin_last(df) ==
    CHOOSE i \in 1..Len(df) :
        /\ \A j \in 1..Len(df) : df[i].effective_buy[1] <= df[j].effective_buy[1]
        /\ \A j \in (i + 1)..Len(df) :
              df[j].effective_buy[1] # df[i].effective_buy[1]

\* Series.idxmin() / idxmax(): the first position of the extreme value.
idxmin(df) ==
    CHOOSE i \in 1..Len(df) :
        /\ \A j \in 1..Len(df) : df[i].effective_buy[1] <= df[j].effective_buy[1]
        /\ \A j \in 1..(i - 1) : df[j].effective_buy[1] # df[i].effective_buy[1]

idxmax(df) ==
    CHOOSE i \in 1..Len(df) :
        /\ \A j \in 1..Len(df) : df[i].effective_sell[1] >= df[j].effective_sell[1]
        /\ \A j \in 1..(i - 1) : df[j].effective_sell[1] # df[i].effective_sell[1]

\* Line 253, in cents.
ProfitUsd(buy, sell, transfer) ==
    sell.effective_sell[1] - buy.effective_buy[1] - transfer * 100

\* Line 254: profit_usd / effective_buy * 100 as the fraction num / den with
\* den > 0; 0.0 when either price is falsy.
ProfitPercent(buy, sell, transfer) ==
    LET eb == buy.effective_buy[1]
        es == sell.effective_sell[1]
        p  == ProfitUsd(buy, sell, transfer)
    IN  IF eb # 0 /\ es # 0
        THEN IF eb > 0 THEN [num |-> p * 100, den |-> eb]
             ELSE [num |-> -(p * 100), den |-> -eb]
        ELSE [num |-> 0, den |-> 1]

\* Line 265: profit_percent > alert_threshold_percent, the threshold in
\* hundredths of a percent.
AboveThreshold(pp, threshold) == pp.num * 100 > threshold * pp.den

\* A key that leaves the buy price out.
AlertKeyNoBuyPrice(c, buy, sell) ==
    <<c, buy.exchange, sell.exchange, 0, int(sell.effective_sell[1])>>

\* Line 264.  The key is the tuple of the five fields the f-string joins
\* with "_"; no coin or exchange name of the model holds a "_", so the
\* joined string and the tuple determine each other.
AlertKey(c, buy, sell) ==
    <<c, buy.exchange, sell.exchange,
      int(buy.effective_buy[1]), int(sell.effective_sell[1])>>

\* Lines 258-261: what the run reports as the best current opportunity.
Opportunity(buy, sell, transfer) ==
    [buy_exchange |-> buy.exchange, buy_symbol |-> buy.symbol,
     buy_price |-> buy.effective_buy[1],
     sell_exchange |-> sell.exchange, sell_symbol |-> sell.symbol,
     sell_price |-> sell.effective_sell[1],
     profit_usd |-> ProfitUsd(buy, sell, transfer),
     profit_percent |-> ProfitPercent(buy, sell, transfer)]

\* Lines 268-272: the message, by its fields.
Message(c, opp, now) ==
    <<c, opp.buy_exchange, opp.buy_symbol, opp.buy_price, opp.sell_exchange,
      opp.sell_symbol, opp.sell_price, opp.profit_usd, opp.profit_percent, now>>

\* Lines 279-290: the history row, in the order of the header.
HistoryRow(c, opp, now) ==
    <<now, c, opp.buy_exchange, opp.buy_symbol, opp.buy_price,
      opp.sell_exchange, opp.sell_symbol, opp.sell_price, opp.profit_usd,
      opp.profit_percent>>

\* A check that never finds the key.
NotAlertedAlways(alerts, key) == TRUE

\* Line 266: last_alerts.get(alert_key) is None
NotAlerted(alerts, key) == key \notin DOMAIN alerts

\* Line 295: last_alerts[alert_key] = now
RecordAlert(alerts, key, now) ==
    [k \in DOMAIN alerts \cup {key} |-> IF k = key THEN now ELSE alerts[k]]

(***************************************************************************)
(* The inputs the runs draw from: what the operator sets in the sidebar    *)
(* and what the exchanges, the notifier and the file system do.            *)
(***************************************************************************)
\* Inputs of a session of several cycles: few price levels, every outcome
\* of the notifier and of the ledger.
SessionInputs ==
    [ coins      |-> {"ETH"},
      lists      |-> { <<"binance", "kraken">>, <<"kraken", "binance">>,
                       <<"kraken">> },
      fees       |-> {0},
      transfers  |-> {0},
      thresholds |-> {300},
      listings   |-> { <<Symbol("ETH", "USD"), Symbol("ETH", "USDT")>> },
      tickers    |-> { Ticker(Some(100), Some(100), Some(100)),
                       Ticker(None, None, Some(103)),
                       Ticker(Some(107), Some(107), None) },
      telegram   |-> TelegramOutcomes,
      appends    |-> AppendOutcomes ]

\* Inputs of a single cycle: every combination of present and absent
\* bid, ask and last, zero and crossed prices, fees and transfer costs.
CalcInputs ==
    [ coins      |-> {"ETH"},
      lists      |-> { <<>>, <<"kraken">>, <<"binance", "kraken">>,
                       <<"kraken", "binance">> },
      fees       |-> {0, 5},
      transfers  |-> {0, 1},
      thresholds |-> {1, 5000},
      listings   |-> Listings,
      tickers    |-> TickersOver({None, Some(0), Some(3)},
                                 {None, Some(0), Some(2)},
                                 {None, Some(4)}),
      telegram   |-> {"status_200", Raise},
      appends    |-> {"ok", Raise} ]

(***************************************************************************)
(* The state after the session state is initialised (lines 35-41), with    *)
(* no history file.                                                        *)
(***************************************************************************)
NoResults ==
    /\ status = "none"
    /\ opportunity = None
    /\ telegram_result = None
    /\ append_result = None
    /\ history_view = None

FreshSession ==
    /\ last_alerts = <<>>
    /\ exchanges_cache = {}
    /\ markets_loaded = {}
    /\ markets = [e \in Exchanges |-> None]
    /\ history_file = None
    /\ telegram_calls = <<>>
    /\ append_calls = <<>>

Init ==
    /\ FreshSession
    /\ pc = "idle"
    /\ cycles = 0
    /\ coin = "ETH"
    /\ selected_exchanges = <<>>
    /\ taker_fee_percent = 0
    /\ transfer_fee_usd = 0
    /\ alert_threshold_percent = 300
    /\ idx = 1
    /\ prices_raw = <<>>
    /\ load_calls = {}
    /\ tickers_raw = <<>>
    /\ NoResults

(***************************************************************************)
(* A run of the script starts: the widgets are read (lines 43-67).         *)
(***************************************************************************)
BeginCycle(I) ==
    /\ pc = "idle"
    /\ cycles < MaxCycles
    /\ pc' = "fetch"
    /\ cycles' = cycles + 1
    /\ coin' \in I.coins
    /\ selected_exchanges' \in I.lists
    /\ taker_fee_percent' \in I.fees
    /\ transfer_fee_usd' \in I.transfers
    /\ alert_threshold_percent' \in I.thresholds
    /\ idx' = 1
    /\ prices_raw' = <<>>
    /\ load_calls' = {}
    /\ tickers_raw' = <<>>
    /\ status' = "none"
    /\ opportunity' = None
    /\ telegram_result' = None
    /\ append_result' = None
    /\ history_view' = None
    /\ UNCHANGED <<session_vars, world_vars>>

(***************************************************************************)
(* One iteration of the loop of get_prices_for_coin (lines 131-144).       *)
(***************************************************************************)
FetchExchange(I) ==
    /\ pc = "fetch"
    /\ idx <= Len(selected_exchanges)
    /\ LET name == selected_exchanges[idx] IN
       \E inst \in (IF name \in exchanges_cache THEN {"ok"} ELSE InstOutcomes) :
       LET made == instantiate_exchange(name, exchanges_cache, inst) IN
       \E load \in (IF made.ex # None /\ name \notin markets_loaded
                    THEN {Raises} \cup {Returns(l) : l \in I.listings}
                    ELSE {Raises}) :
       LET ld == IF made.ex = None
                 THEN [loaded |-> markets_loaded, markets |-> markets,
                       called |-> FALSE]
                 ELSE load_markets_once(name, markets_loaded, markets, load)
           symbol == IF made.ex = None THEN None
                     ELSE find_symbol(ld.markets[name], coin)
       IN
       \E raw \in (IF symbol # None
                   THEN {Raises} \cup {Returns(t) : t \in I.tickers}
                   ELSE {Raises}) :
       LET ticker == IF symbol = None THEN None ELSE fetch_ticker_safe(raw)
           keep == /\ ticker # None
                   /\ ~(ticker[1].bid = None /\ ticker[1].ask = None
                        /\ ticker[1].last = None)
       IN
       /\ exchanges_cache' = made.cache
       /\ markets_loaded' = ld.loaded
       /\ markets' = ld.markets
       /\ load_calls' = IF ld.called THEN load_calls \cup {name} ELSE load_calls
       /\ tickers_raw' =
            IF symbol # None /\ raw.kind # Raise
            THEN Append(tickers_raw, [exchange |-> name, ticker |-> raw.value])
            ELSE tickers_raw
       /\ prices_raw' =
            IF keep
            THEN Append(prices_raw,
                        [exchange |-> name, symbol |-> symbol[1],
                         bid |-> ticker[1].bid, ask |-> ticker[1].ask,
                         last |-> ticker[1].last])
            ELSE prices_raw
    /\ idx' = idx + 1
    /\ UNCHANGED <<last_alerts, world_vars, pc, cycles, input_vars, result_vars>>

(***************************************************************************)
(* The rest of the run, once get_prices_for_coin has returned (lines       *)
(* 222-314): the two st.stop() exits, the best opportunity, the alert      *)
(* logic and the history view.                                             *)
(***************************************************************************)
Stop(st) ==
    /\ status' = st
    /\ opportunity' = None
    /\ telegram_result' = None
    /\ append_result' = None
    /\ history_view' = None
    /\ UNCHANGED <<last_alerts, world_vars>>

NoAlert(st, opp) ==
    /\ status' = st
    /\ opportunity' = Some(opp)
    /\ telegram_result' = None
    /\ append_result' = None
    /\ history_view' = Some(HistoryView(history_file))
    /\ UNCHANGED <<last_alerts, world_vars>>

\* An alert that appends the row only when the message was sent.
FireAlertAppendIfSent(I, opp, key) ==
    \E tg \in I.telegram, ap \in I.appends :
        LET sent  == send_telegram(tg)
            row   == HistoryRow(coin, opp, cycles)
            saved == append_history_row(history_file, row, ap)
        IN  /\ telegram_calls' = Append(telegram_calls, Message(coin, opp, cycles))
            /\ telegram_result' = Some(sent)
            /\ status' = IF sent[1] THEN "alert_sent" ELSE "alert_failed"
            /\ append_calls' = IF sent[1] THEN Append(append_calls, <<row, ap>>)
                               ELSE append_calls
            /\ history_file' = IF sent[1] THEN saved.file ELSE history_file
            /\ append_result' =
                  IF sent[1] THEN Some(IF saved.raised THEN "raised" ELSE "ok")
                  ELSE None
            /\ last_alerts' = RecordAlert(last_alerts, key, cycles)
            /\ opportunity' = Some(opp)
            /\ history_view' = Some(HistoryView(history_file'))

\* An alert that records the key only when the row was saved.
FireAlertRecordIfSaved(I, opp, key) ==
    \E tg \in I.telegram, ap \in I.appends :
        LET sent  == send_telegram(tg)
            row   == HistoryRow(coin, opp, cycles)
            saved == append_history_row(history_file, row, ap)
        IN  /\ telegram_calls' = Append(telegram_calls, Message(coin, opp, cycles))
            /\ telegram_result' = Some(sent)
            /\ status' = IF sent[1] THEN "alert_sent" ELSE "alert_failed"
            /\ append_calls' = Append(append_calls, <<row, ap>>)
            /\ history_file' = saved.file
            /\ append_result' = Some(IF saved.raised THEN "raised" ELSE "ok")
            /\ last_alerts' = IF saved.raised THEN last_alerts
                              ELSE RecordAlert(last_alerts, key, cycles)
            /\ opportunity' = Some(opp)
            /\ history_view' = Some(HistoryView(saved.file))

FireAlert(I, opp, key) ==
    \E tg \in I.telegram, ap \in I.appends :
        LET sent  == send_telegram(tg)
            row   == HistoryRow(coin, opp, cycles)
            saved == append_history_row(history_file, row, ap)
        IN  /\ telegram_calls' = Append(telegram_calls, Message(coin, opp, cycles))
            /\ telegram_result' = Some(sent)
            /\ status' = IF sent[1] THEN "alert_sent" ELSE "alert_failed"
            /\ append_calls' = Append(append_calls, <<row, ap>>)
            /\ history_file' = saved.file
            /\ append_result' = Some(IF saved.raised THEN "raised" ELSE "ok")
            /\ last_alerts' = RecordAlert(last_alerts, key, cycles)
            /\ opportunity' = Some(opp)
            /\ history_view' = Some(HistoryView(saved.file))

Evaluate(I) ==
    /\ pc = "fetch"
    /\ idx > Len(selected_exchanges)
    /\ pc' = "idle"
    /\ LET df       == DataFrame(prices_raw, taker_fee_percent)
           df_valid == dropna(df)
       IN  IF prices_raw = <<>> THEN Stop("no_price_data")
           ELSE IF df_valid = <<>> THEN Stop("not_enough_data")
           ELSE LET best_buy_row  == df_valid[idxmin(df_valid)]
                    best_sell_row == df_valid[idxmax(df_valid)]
                    opp == Opportunity(best_buy_row, best_sell_row,
                                       transfer_fee_usd)
                    alert_key == AlertKey(coin, best_buy_row, best_sell_row)
                IN  IF AboveThreshold(opp.profit_percent,
                                      alert_threshold_percent)
                    THEN IF NotAlerted(last_alerts, alert_key)
                         THEN FireAlert(I, opp, alert_key)
                         ELSE NoAlert("dedup", opp)
                    ELSE NoAlert("below_threshold", opp)
    /\ UNCHANGED <<exchanges_cache, markets_loaded, markets, cycles,
                   input_vars, idx, prices_raw, load_calls, tickers_raw>>

Next ==
    \/ BeginCycle(SessionInputs)
    \/ FetchExchange(SessionInputs)
    \/ Evaluate(SessionInputs)

Spec == Init /\ [][Next]_vars

(***************************************************************************)
(* One run with a wide range of inputs: the state is that of a fresh       *)
(* session whose first run has read its widgets.                           *)
(***************************************************************************)
InitCalc ==
    /\ FreshSession
    /\ pc = "fetch"
    /\ cycles = 1
    /\ coin \in CalcInputs.coins
    /\ selected_exchanges \in CalcInputs.lists
    /\ taker_fee_percent \in CalcInputs.fees
    /\ transfer_fee_usd \in CalcInputs.transfers
    /\ alert_threshold_percent \in CalcInputs.thresholds
    /\ idx = 1
    /\ prices_raw = <<>>
    /\ load_calls = {}
    /\ tickers_raw = <<>>
    /\ NoResults

NextCalc ==
    \/ FetchExchange(CalcInputs)
    \/ Evaluate(CalcInputs)

SpecCalc == InitCalc /\ [][NextCalc]_vars

(***************************************************************************)
(* Properties.  RunDone holds between runs, once a run has ended; Reported *)
(* holds when that run reported a best opportunity.                        *)
(***************************************************************************)
RunDone == pc = "idle" /\ cycles > 0
Reported == RunDone /\ opportunity # None

\* The dedup key of the claims: coin, buy exchange, sell exchange and the
\* two effective prices truncated to integers.
DedupKey(c, buy_exchange, sell_exchange, buy_price, sell_price) ==
    <<c, buy_exchange, sell_exchange, int(buy_price), int(sell_price)>>
KeyOfMessage(m) == DedupKey(m[1], m[2], m[5], m[4], m[7])
KeyOfRow(r) == DedupKey(r[2], r[3], r[6], r[5], r[8])
KeyOfRun == DedupKey(coin, opportunity[1].buy_exchange,
                     opportunity[1].sell_exchange, opportunity[1].buy_price,
                     opportunity[1].sell_price)

\* The run that just ended fired an alert.
Fired == RunDone /\ telegram_result # None

\* profit_percent > threshold, from the reported profit and buy price.
ReportedAbove ==
    LET o == opportunity[1]
    IN  /\ o.buy_price # 0
        /\ o.sell_price # 0
        /\ IF o.buy_price > 0
           THEN o.profit_usd * 10000 > alert_threshold_percent * o.buy_price
           ELSE o.profit_usd * 10000 < alert_threshold_percent * o.buy_price

(***************************************************************************)
(* C1.  Within a session no two notifications and no two history rows      *)
(* carry the same dedup key, whatever the runs' inputs; and a run whose    *)
(* profit percent is above the threshold has its key among the keys        *)
(* notified so far, so a run with a key not notified before (a truncated   *)
(* price that changed) fires a new alert.                                  *)
(***************************************************************************)
C1_AlertOncePerKey ==
    /\ \A i, j \in 1..Len(telegram_calls) :
          KeyOfMessage(telegram_calls[i]) = KeyOfMessage(telegram_calls[j])
             => i = j
    /\ \A i, j \in 1..Len(append_calls) :
          KeyOfRow(append_calls[i][1]) = KeyOfRow(append_calls[j][1]) => i = j
    /\ (Reported /\ ReportedAbove) =>
          \E i \in 1..Len(telegram_calls) :
             KeyOfMessage(telegram_calls[i]) = KeyOfRun

\* Two alerts fired for keys that differ in a truncated price, and the run
\* that just ended produced an alerted key again and stayed silent.
C1_Witness ==
    /\ Reported /\ ReportedAbove /\ status = "dedup"
    /\ Len(telegram_calls) = 2
    /\ KeyOfMessage(telegram_calls[1])[4] # KeyOfMessage(telegram_calls[2])[4]

\* The history row the claims expect of the run that just ended.
ExpectedRow ==
    LET o == opportunity[1]
    IN  <<cycles, coin, o.buy_exchange, o.buy_symbol, o.buy_price,
          o.sell_exchange, o.sell_symbol, o.sell_price, o.profit_usd,
          o.profit_percent>>

(***************************************************************************)
(* C2.  Every step that attempts a notification, calls the ledger append,  *)
(* changes the history file or changes the alert state is the end of a run *)
(* whose profit percent is strictly above the threshold and whose dedup    *)
(* key was not recorded before the run; every other step leaves all four   *)
(* unchanged.                                                              *)
(***************************************************************************)
C2_FireOnlyAboveAndNew ==
    [][ (\/ telegram_calls' # telegram_calls
         \/ append_calls' # append_calls
         \/ history_file' # history_file
         \/ DOMAIN last_alerts' # DOMAIN last_alerts)
        => /\ pc = "fetch" /\ pc' = "idle"
           /\ opportunity' # None
           /\ ReportedAbove'
           /\ KeyOfRun' \notin DOMAIN last_alerts ]_vars

\* A run fired its alert: notified, row appended, key recorded.
C2_Witness ==
    /\ Fired /\ ReportedAbove
    /\ append_result = Some("ok")
    /\ telegram_result[1][1]
    /\ KeyOfRun \in DOMAIN last_alerts

(***************************************************************************)
(* C5.  When the run that just ended fired an alert and the notifier       *)
(* failed, send_telegram returned (False, reason), append_history_row was  *)
(* called in that run with the alert's row, and the row is the last line   *)
(* of the file when the append succeeded.                                  *)
(***************************************************************************)
C5_NotifierFailureKeepsRow ==
    (Fired /\ ~telegram_result[1][1]) =>
        /\ telegram_result[1][2] \in
              {"No Telegram configured", "r.text", "str(e)"}
        /\ Len(append_calls) = Len(telegram_calls)
        /\ append_calls # <<>>
        /\ append_calls[Len(append_calls)][1] = ExpectedRow
        /\ append_result # None
        /\ append_result = Some("ok") =>
              /\ history_file # None
              /\ history_file[1] # <<>>
              /\ history_file[1][Len(history_file[1])] = DataLine(ExpectedRow)

\* The HTTP call raised and the row was appended all the same.
C5_Witness ==
    /\ Fired
    /\ telegram_result = Some(<<FALSE, "str(e)">>)
    /\ append_result = Some("ok")
    /\ history_file # None

(***************************************************************************)
(* C6.  The key of every alert whose ledger append failed is recorded in   *)
(* the alert state, in the run of the failure and in all later runs; and   *)
(* the run of the failure went on to its end, the history view.            *)
(***************************************************************************)
C6_FailedAppendStillRecordsKey ==
    /\ \A i \in 1..Len(append_calls) :
          append_calls[i][2] # "ok" =>
             KeyOfRow(append_calls[i][1]) \in DOMAIN last_alerts
    /\ (Fired /\ append_result = Some("raised")) =>
          /\ KeyOfRun \in DOMAIN last_alerts
          /\ history_view # None

\* A later run produced the key of an alert whose append had failed, and
\* stayed silent.
C6_Witness ==
    /\ Reported /\ status = "dedup"
    /\ \E i \in 1..Len(append_calls) :
          /\ append_calls[i][2] # "ok"
          /\ KeyOfRow(append_calls[i][1]) = KeyOfRun

(***************************************************************************)
(* C7.  A failed step is attempted again in the next run: at the end of    *)
(* every run, each selected exchange that is instantiated and has no       *)
(* markets loaded had its load_markets() called in that run.               *)
(***************************************************************************)
C7_FailedStepRetried ==
    RunDone =>
        \A i \in 1..Len(selected_exchanges) :
            LET e == selected_exchanges[i]
            IN  (e \in exchanges_cache /\ markets[e] = None) => e \in load_calls

(***************************************************************************)
(* C10.  When every call of append_history_row so far succeeded, the file  *)
(* is missing before the first call and afterwards holds the header line   *)
(* followed by the rows of the calls, in call order; and a run that shows  *)
(* the history view while the file is missing shows "no history".          *)
(***************************************************************************)
C10_HeaderThenRowsInOrder ==
    /\ (\A i \in 1..Len(append_calls) : append_calls[i][2] = "ok") =>
          history_file =
             IF append_calls = <<>> THEN None
             ELSE Some(<<HeaderLine>> \o
                       [i \in 1..Len(append_calls) |->
                           DataLine(append_calls[i][1])])
    /\ (RunDone /\ history_view # None /\ history_file = None) =>
          history_view[1].kind = "no_history"

\* Two successful appends, and the view shows a table of two rows.
C10_Witness ==
    /\ RunDone
    /\ Len(append_calls) = 2
    /\ \A i \in 1..2 : append_calls[i][2] = "ok"
    /\ history_view = Some([kind |-> "table", total |-> 2])

(***************************************************************************)
(* The quotes of the claims: a quote is usable when it has a bid and an    *)
(* ask; effective_buy = ask * (1 + fee), effective_sell = bid * (1 - fee), *)
(* in cents.                                                               *)
(***************************************************************************)
IsUsable(q) == q.bid # None /\ q.ask # None
Usable == SelectSeq(prices_raw, IsUsable)
EffBuy(q) == q.ask[1] * (100 + taker_fee_percent)
EffSell(q) == q.bid[1] * (100 - taker_fee_percent)
PairProfit(buy, sell) == EffSell(sell) - EffBuy(buy) - transfer_fee_usd * 100

(***************************************************************************)
(* C3.  A run reports an opportunity (and so can fire an alert) only with  *)
(* a buy exchange and a sell exchange that differ.                         *)
(***************************************************************************)
C3_DistinctExchanges ==
    Reported => opportunity[1].buy_exchange # opportunity[1].sell_exchange

(***************************************************************************)
(* C4.  A run whose usable quotes have a minimum effective buy price of    *)
(* zero or less reports no opportunity and fires no alert.                 *)
(***************************************************************************)
C4_NoOpportunityAtNonPositiveBuy ==
    (RunDone /\ \E i \in 1..Len(Usable) : EffBuy(Usable[i]) <= 0) =>
        /\ opportunity = None
        /\ telegram_result = None

(***************************************************************************)
(* C8.  A run with at least one usable quote reports as buy the first      *)
(* usable quote of minimum effective buy price, as sell the first usable   *)
(* quote of maximum effective sell price, and as profit the sell price     *)
(* less the buy price less the transfer cost, which is the maximum of that *)
(* expression over all pairs of usable quotes.                             *)
(***************************************************************************)
C8_BestPairMaximisesProfit ==
    (RunDone /\ Usable # <<>>) =>
        /\ opportunity # None
        /\ LET o == opportunity[1]
               n == Len(Usable)
           IN  /\ \E b \in 1..n :
                     /\ o.buy_exchange = Usable[b].exchange
                     /\ o.buy_price = EffBuy(Usable[b])
                     /\ \A j \in 1..n : EffBuy(Usable[b]) <= EffBuy(Usable[j])
                     /\ \A j \in 1..(b - 1) :
                           EffBuy(Usable[b]) < EffBuy(Usable[j])
               /\ \E k \in 1..n :
                     /\ o.sell_exchange = Usable[k].exchange
                     /\ o.sell_price = EffSell(Usable[k])
                     /\ \A j \in 1..n : EffSell(Usable[k]) >= EffSell(Usable[j])
                     /\ \A j \in 1..(k - 1) :
                           EffSell(Usable[k]) > EffSell(Usable[j])
               /\ o.profit_usd =
                     o.sell_price - o.buy_price - transfer_fee_usd * 100
               /\ \A i, j \in 1..n :
                     o.profit_usd >= PairProfit(Usable[i], Usable[j])

\* Two usable quotes tie on the effective buy price and differ on the
\* effective sell price: the buy is the first, the sell the second.
C8_Witness ==
    /\ Reported
    /\ Len(Usable) = 2
    /\ EffBuy(Usable[1]) = EffBuy(Usable[2])
    /\ EffBuy(Usable[1]) > 0
    /\ EffSell(Usable[1]) < EffSell(Usable[2])
    /\ opportunity[1].buy_exchange = Usable[1].exchange
    /\ opportunity[1].sell_exchange = Usable[2].exchange

(***************************************************************************)
(* C9.  For every ticker fetch_ticker returned in the run: a bid or an ask *)
(* that is absent becomes last when last is present, a bid or an ask that  *)
(* is present is kept; a ticker with only last has bid = ask = last; and a *)
(* ticker that still lacks its bid or its ask gets no effective prices, is *)
(* not filled with zero and is neither the buy nor the sell reported.      *)
(***************************************************************************)
C9_BackfillAndInvalid ==
    \A k \in 1..Len(tickers_raw) :
        LET t    == tickers_raw[k].ticker
            e    == tickers_raw[k].exchange
            bid  == IF t.bid = None /\ t.last # None THEN t.last ELSE t.bid
            ask  == IF t.ask = None /\ t.last # None THEN t.last ELSE t.ask
            recs == {i \in 1..Len(prices_raw) : prices_raw[i].exchange = e}
        IN  /\ (t.bid = None /\ t.ask = None /\ t.last = None) <=> recs = {}
            /\ \A i \in recs :
                  /\ prices_raw[i].bid = bid
                  /\ prices_raw[i].ask = ask
                  /\ prices_raw[i].last = t.last
                  /\ (t.bid = None /\ t.ask = None) =>
                        /\ prices_raw[i].bid = t.last
                        /\ prices_raw[i].ask = t.last
                  /\ (bid = None \/ ask = None) =>
                        compute_effective_prices(prices_raw[i],
                                                 taker_fee_percent)
                           = <<None, None>>
            /\ (Reported /\ (bid = None \/ ask = None)) =>
                  /\ opportunity[1].buy_exchange # e
                  /\ opportunity[1].sell_exchange # e

\* One ticker with an ask and neither bid nor last, one with only last; the
\* run reported the second as buy.
C9_Witness ==
    /\ Reported
    /\ Len(tickers_raw) = 2
    /\ tickers_raw[1].ticker = Ticker(None, Some(2), None)
    /\ tickers_raw[2].ticker = Ticker(None, None, Some(4))
    /\ prices_raw[2].bid = Some(4) /\ prices_raw[2].ask = Some(4)
    /\ opportunity[1].buy_exchange = tickers_raw[2].exchange

====
